---- MODULE Spec2Model ----
(***************************************************************************)
(* A model of CaLiForce's frequency summation (frequency_summation.py:     *)
(* psd_sum, msd_sum) and of the plane-plane radial integrands and their    *)
(* quadrature wrappers (interaction.py: the k_integrand and k0_func       *)
(* families).                                                              *)
(*                                                                         *)
(* Numbers.  Terms, weights and partial sums are exact integers in a fixed *)
(* unit.  A frequency argument is the exact real  n/d * pi^pi  in units of *)
(* k_B/(hbar*c), kept as a record [n, d, pi].  A returned sum is kept in   *)
(* units of 0.5*k_B.  epsrel is a signed power of ten.                     *)
(***************************************************************************)
EXTENDS Integers, Sequences, FiniteSets, TLC

\* ------------------------------------------------------------- bounds
MaxT == 2          \* temperatures T in 1..MaxT (Kelvin)
MaxL == 2          \* distances L in 1..MaxL (length units, see TeffDen)
TeffDen == 4       \* the length unit: Teff = T*L/TeffDen
MinEpsExp == 3     \* epsrel ranges over 10^(-MinEpsExp) .. 10^MaxEpsExp
MaxEpsExp == 2
MaxOrder == 3      \* an explicit order or nmax lies in 0..MaxOrder
MaxCalls == 7      \* cap on the evaluations of an unbounded msd_sum loop
GeoBits == 5       \* a geometric callback's n-th term is 2^(GeoBits-n), 0 below the unit
MaxRaise == 2      \* a callback raises at its MaxRaise-th evaluation, at most
QuadPts == 2       \* the sample points t = 1..QuadPts of one quadrature
MaxK0 == 1         \* vacuum wave numbers k0 in 0..MaxK0
MaxD == 2          \* plate separations d in 1..MaxD

\* ------------------------------------------------------------- numbers
Abs(x) == IF x < 0 THEN -x ELSE x

Max(a, b) == IF a >= b THEN a ELSE b

\* exact reals  n/d * pi^pi  (in units of k_B/(hbar*c))
Real(n, d, p) == [n |-> n, d |-> d, pi |-> p]

RealMul(a, k) == [a EXCEPT !.n = a.n * k]

RealDiv(a, k) == [a EXCEPT !.d = a.d * k]

RealDivPi(a) == [a EXCEPT !.pi = a.pi - 1]

RealEq(a, b) == a.pi = b.pi /\ a.n * b.d = b.n * a.d

\* ------------------------------------------------------------- inputs
Temps == 1..MaxT

Lengths == 1..MaxL

\* epsrel = (neg ? -1 : 1) * 10^exp
EpsRels == [neg : BOOLEAN, exp : (-MinEpsExp)..MaxEpsExp]

\* the optional argument order / nmax: None, or an integer
NoCap == [given |-> FALSE, val |-> 0]

Caps == {NoCap} \cup [given : {TRUE}, val : 0..MaxOrder]

\* The callbacks func: vector valued (shape 2: [TE, TM]) or scalar valued
\* (shape 1), each component one of four sequences of the sample number j,
\* raising an error at the raiseAt-th evaluation (0: never).
Kinds == {"geo", "one", "alt", "zero"}

KindVal(kind, j) ==
    CASE kind = "geo" -> IF j <= GeoBits THEN 2 ^ (GeoBits - j) ELSE 0
      [] kind = "one" -> 1
      [] kind = "alt" -> IF j % 2 = 1 THEN 1 ELSE -1
      [] OTHER -> 0

Funcs ==
    { f \in [shape : {1, 2}, te : Kinds, tm : Kinds, raiseAt : 0..MaxRaise] :
        f.shape = 1 => f.tm = f.te }

\* what func returns at its j-th evaluation: a sequence of shape components
FuncVal(f, j) ==
    IF f.shape = 1 THEN << KindVal(f.te, j) >>
    ELSE << KindVal(f.te, j), KindVal(f.tm, j) >>

FuncRaises(f, j) == f.raiseAt # 0 /\ j = f.raiseAt

\* ------------------------------------------------------------- psd (external)
\* The node generator psd(order): abscissas xi and weights eta, both of
\* length order.
PsdNodes(order) ==
    [xi  |-> [i \in 1..order |-> 2 * i - 1 + order],
     eta |-> [i \in 1..order |-> IF i = order THEN order + 1 ELSE 1]]

\* ------------------------------------------------------------- psd_sum, msd_sum
MinOrder == 5

\* K_matsubara = 2 * np.pi * k * T / (hbar * c)
K_matsubara(T) == Real(2 * T, 1, 1)

\* Teff = 4 * np.pi * k / hbar / c * T * L, a rational in the model's length unit
Teff(T, L) == [n |-> T * L, d |-> TeffDen]

\* mutant: the sign of the logarithm's term flipped
Numer2_SignFlipped(epsrel) == 2 + 3 * epsrel.exp

\* twice the numerator  1 - 1.5 * np.log10(np.abs(epsrel))
Numer2(epsrel) == 2 - 3 * epsrel.exp

\* np.ceil((x2 / 2) / np.sqrt(te)), exactly: for x2 > 0 the least m with
\* m * sqrt(te) >= x2 / 2, otherwise minus the greatest m with m * sqrt(te) <= -x2 / 2
CeilOverSqrt(x2, te) ==
    LET range == 0..(Abs(x2) * te.d)
        below(m) == 4 * m * m * te.n < x2 * x2 * te.d
        above(m) == 4 * m * m * te.n > x2 * x2 * te.d
    IN  IF x2 > 0
        THEN CHOOSE m \in range : ~below(m) /\ \A q \in range : q < m => below(q)
        ELSE - (CHOOSE m \in range : ~above(m) /\ \A q \in range : q > m => above(q))

\* mutant: the floor of 5 dropped
OrderHeuristic_NoFloor(T, L, epsrel) == CeilOverSqrt(Numer2(epsrel), Teff(T, L))

\* order = int(max(np.ceil((1 - 1.5 * np.log10(np.abs(epsrel))) / np.sqrt(Teff)), 5))
OrderHeuristic(T, L, epsrel) == Max(CeilOverSqrt(Numer2(epsrel), Teff(T, L)), MinOrder)

\* numpy broadcasting of a term of shape 1 or 2 against res, of shape 2
Bcast(term, i) == IF Len(term) = 1 THEN term[1] ELSE term[i]

\* mutant: both components of the term added into each component of res
Accumulate_Mixed(res, w, term) ==
    [i \in 1..2 |-> res[i] + w * (Bcast(term, 1) + Bcast(term, 2))]

\* res += w * term
Accumulate(res, w, term) == [i \in 1..2 |-> res[i] + w * Bcast(term, i)]

\* one element of  abs(term / np.sum(res)) < epsrel : a zero total gives inf or
\* nan, which is below no epsrel; nothing non-negative is below a negative epsrel
BelowEps(t, total, epsrel) ==
    /\ total # 0
    /\ ~epsrel.neg
    /\ IF epsrel.exp >= 0
       THEN Abs(t) < (10 ^ epsrel.exp) * Abs(total)
       ELSE Abs(t) * (10 ^ (-epsrel.exp)) < Abs(total)

\* the array  abs(term / np.sum(res)) < epsrel , of term's shape
RatioTest(term, res, epsrel) ==
    [i \in 1..Len(term) |-> BelowEps(term[i], res[1] + res[2], epsrel)]

\* Python's truth value of a numpy boolean array: its element when it has one,
\* a ValueError ("truth value of an array ... is ambiguous") when it has more
Truth(b) == IF Len(b) = 1 THEN IF b[1] THEN "true" ELSE "false" ELSE "ValueError"

\* 0.5 * k * T * res, in units of 0.5 * k
Scaled(T, res) == [i \in 1..2 |-> T * res[i]]

IdleRun ==
    [pc |-> "idle", n |-> 0, order |-> 0, psdCalls |-> << >>,
     xi |-> << >>, eta |-> << >>, res |-> <<0, 0>>, calls |-> << >>,
     ret |-> <<0, 0>>, err |-> "none"]

IdleCall ==
    [fn |-> "idle", T |-> 1, L |-> 1, epsrel |-> [neg |-> FALSE, exp |-> 0], cap |-> NoCap]

\* psd_sum, lines 26-31: the locals before the loop
PsdStart(c) ==
    LET order == IF c.cap.given THEN c.cap.val
                 ELSE OrderHeuristic(c.T, c.L, c.epsrel)
        nodes == PsdNodes(order)
    IN  [IdleRun EXCEPT !.pc = "loop", !.n = 0, !.order = order,
                        !.psdCalls = << order >>, !.xi = nodes.xi, !.eta = nodes.eta]

\* for n in range(order)
PsdCanIter(r) == r.pc = "loop" /\ r.n < r.order

\* mutant: the argument is K_matsubara * xi[n], without the division by 2 * pi
PsdIter_NoTwoPi(c, f, r) ==
    LET arg == RealMul(K_matsubara(c.T), r.xi[r.n + 1])
        j == Len(r.calls) + 1
    IN  IF FuncRaises(f, j)
        THEN [r EXCEPT !.pc = "raised", !.err = "func", !.calls = Append(@, arg)]
        ELSE [r EXCEPT !.calls = Append(@, arg),
                       !.res = Accumulate(@, 2 * r.eta[r.n + 1], FuncVal(f, j)),
                       !.n = @ + 1]

\* psd_sum, line 33: res += 2 * eta[n] * func(K_matsubara * xi[n]/2/np.pi)
PsdIter(c, f, r) ==
    LET arg == RealDivPi(RealDiv(RealMul(K_matsubara(c.T), r.xi[r.n + 1]), 2))
        j == Len(r.calls) + 1
    IN  IF FuncRaises(f, j)
        THEN [r EXCEPT !.pc = "raised", !.err = "func", !.calls = Append(@, arg)]
        ELSE [r EXCEPT !.calls = Append(@, arg),
                       !.res = Accumulate(@, 2 * r.eta[r.n + 1], FuncVal(f, j)),
                       !.n = @ + 1]

PsdCanReturn(r) == r.pc = "loop" /\ ~(r.n < r.order)

\* psd_sum, line 34: return 0.5*k*T*res
PsdReturn(c, r) == [r EXCEPT !.pc = "done", !.ret = Scaled(c.T, r.res)]

\* msd_sum, lines 58-62
MsdStart(c) == [IdleRun EXCEPT !.pc = "loop", !.n = 1]

\* while (n <= nmax), nmax = np.inf when none is given
MsdCanIter(c, r) == r.pc = "loop" /\ (c.cap.given => r.n <= c.cap.val)

\* mutant: an evaluation of func that raised is made again
MsdIter_Retry(c, f, r) ==
    LET arg == RealMul(K_matsubara(c.T), r.n)
        j == Len(r.calls) + 1
        term == FuncVal(f, j)
        res == Accumulate(r.res, 2, term)
        test == IF c.cap.given THEN "false" ELSE Truth(RatioTest(term, res, c.epsrel))
    IN  IF FuncRaises(f, j)
        THEN [r EXCEPT !.calls = Append(@, arg)]
        ELSE CASE test = "ValueError" ->
                    [r EXCEPT !.pc = "raised", !.err = "ValueError",
                              !.calls = Append(@, arg), !.res = res]
               [] test = "true" ->
                    [r EXCEPT !.pc = "break", !.calls = Append(@, arg), !.res = res]
               [] OTHER ->
                    [r EXCEPT !.calls = Append(@, arg), !.res = res, !.n = @ + 1]

\* mutant: the convergence test is made whether or not nmax was given
MsdIter_AlwaysTest(c, f, r) ==
    LET arg == RealMul(K_matsubara(c.T), r.n)
        j == Len(r.calls) + 1
        term == FuncVal(f, j)
        res == Accumulate(r.res, 2, term)
        test == Truth(RatioTest(term, res, c.epsrel))
    IN  IF FuncRaises(f, j)
        THEN [r EXCEPT !.pc = "raised", !.err = "func", !.calls = Append(@, arg)]
        ELSE CASE test = "ValueError" ->
                    [r EXCEPT !.pc = "raised", !.err = "ValueError",
                              !.calls = Append(@, arg), !.res = res]
               [] test = "true" ->
                    [r EXCEPT !.pc = "break", !.calls = Append(@, arg), !.res = res]
               [] OTHER ->
                    [r EXCEPT !.calls = Append(@, arg), !.res = res, !.n = @ + 1]

\* msd_sum, lines 65-70: one pass of the loop body
MsdIter(c, f, r) ==
    LET arg == RealMul(K_matsubara(c.T), r.n)
        j == Len(r.calls) + 1
        term == FuncVal(f, j)
        res == Accumulate(r.res, 2, term)
        test == IF c.cap.given THEN "false" ELSE Truth(RatioTest(term, res, c.epsrel))
    IN  IF FuncRaises(f, j)
        THEN [r EXCEPT !.pc = "raised", !.err = "func", !.calls = Append(@, arg)]
        ELSE CASE test = "ValueError" ->
                    [r EXCEPT !.pc = "raised", !.err = "ValueError",
                              !.calls = Append(@, arg), !.res = res]
               [] test = "true" ->
                    [r EXCEPT !.pc = "break", !.calls = Append(@, arg), !.res = res]
               [] OTHER ->
                    [r EXCEPT !.calls = Append(@, arg), !.res = res, !.n = @ + 1]

MsdCanReturn(c, r) == r.pc = "break" \/ (r.pc = "loop" /\ c.cap.given /\ ~(r.n <= c.cap.val))

\* msd_sum, line 71: return 0.5*k*T*res
MsdReturn(c, r) == [r EXCEPT !.pc = "done", !.ret = Scaled(c.T, r.res)]

\* ------------------------------------------------------------- interaction.py
\* A float computed by math.sqrt, exp and log1p is kept as the expression that
\* computes it, written in prefix form as a sequence of integers: equal
\* sequences are equal floats.
Num(v) == << 0, v >>

TPi == << 1 >>

TC == << 2 >>

TNeg(a) == << 3 >> \o a

TSqrt(a) == << 4 >> \o a

TExp(a) == << 5 >> \o a

TLog1p(a) == << 6 >> \o a

TMul(a, b) == << 7 >> \o a \o b

TDiv(a, b) == << 8 >> \o a \o b

TAdd(a, b) == << 9 >> \o a \o b

TSub(a, b) == << 10 >> \o a \o b

TPow(a, e) == << 11, e >> \o a

\* kappa = sqrt(epsm * k0 ** 2 + k ** 2)
Kappa(k, k0, epsm) == TSqrt(TAdd(TMul(epsm, TPow(k0, 2)), TPow(k, 2)))

\* exp(-2 * kappa * d)
Damping(kappa, d) == TExp(TMul(TMul(Num(-2), kappa), d))

\* k_integrand_energy, lines 31-32:  k / 2 / pi * log1p(- rL * rR * exp(-2 * kappa * d))
EnergyKernel(k, kappa, d, rL, rR) ==
    TMul(TDiv(TDiv(k, Num(2)), TPi),
         TLog1p(TMul(TMul(TNeg(rL), rR), Damping(kappa, d))))

\* k_integrand_pressure, lines 86-87
PressureKernel(k, kappa, d, rL, rR) ==
    TDiv(TMul(TMul(TMul(TDiv(TDiv(TMul(TMul(Num(-2), k), kappa), Num(2)), TPi), rL), rR),
              Damping(kappa, d)),
         TSub(Num(1), TMul(TMul(rL, rR), Damping(kappa, d))))

\* k_integrand_pressuregradient, lines 140-141
GradientKernel(k, kappa, d, rL, rR) ==
    TDiv(TMul(TMul(TMul(TDiv(TDiv(TMul(TMul(Num(4), k), TPow(kappa, 2)), Num(2)), TPi), rL), rR),
              Damping(kappa, d)),
         TPow(TSub(Num(1), TMul(TMul(rL, rR), Damping(kappa, d))), 2))

Kernel(mode, k, kappa, d, rL, rR) ==
    CASE mode = "energy" -> EnergyKernel(k, kappa, d, rL, rR)
      [] mode = "pressure" -> PressureKernel(k, kappa, d, rL, rR)
      [] OTHER -> GradientKernel(k, kappa, d, rL, rR)

\* mutant: res_TM takes the left plate's TE coefficient
k_integrand_CopyPaste(mode, k, k0, d, epsm, refL, refR) ==
    LET kappa == Kappa(k, k0, epsm)
        rTE_L == Num(refL.rTE)
        rTM_R == Num(refR.rTM)
        rTE_R == Num(refR.rTE)
        res_TE == Kernel(mode, k, kappa, d, rTE_L, rTE_R)
        res_TM == Kernel(mode, k, kappa, d, rTE_L, rTM_R)
    IN  << res_TE, res_TM >>

\* k_integrand_energy / _pressure / _pressuregradient: (res_TE, res_TM) from the
\* pairs (rTM, rTE) the reflection callbacks returned
k_integrand(mode, k, k0, d, epsm, refL, refR) ==
    LET kappa == Kappa(k, k0, epsm)
        rTM_L == Num(refL.rTM)
        rTE_L == Num(refL.rTE)
        rTM_R == Num(refR.rTM)
        rTE_R == Num(refR.rTE)
        res_TE == Kernel(mode, k, kappa, d, rTE_L, rTE_R)
        res_TM == Kernel(mode, k, kappa, d, rTM_L, rTM_R)
    IN  << res_TE, res_TM >>

\* The sign of kappa ** 2 at k = t / d: that of epsm * k0^2 * d^2 + t^2.
KappaSq(t, k0, d, epsm) == epsm * k0 * k0 * d * d + t * t

\* What a kernel raises.  With kappa = 0 the damping is exactly 1 and the
\* geometric factor is rL * rR: log1p(-1) is a math domain error, a division by
\* 1 - 1 a ZeroDivisionError.  With kappa > 0 and |r| <= 1 the factor is below 1.
KernelError(mode, kappaSq, rL, rR) ==
    IF kappaSq = 0 /\ rL * rR = 1
    THEN IF mode = "energy" THEN "ValueError" ELSE "ZeroDivisionError"
    ELSE "none"

\* the inputs of k0_func_*
K0s == 0..MaxK0

Seps == 1..MaxD

RVals == {-1, 1}

\* a reflection callback returns the pair (rTM, rTE), or raises at its raiseAt-th call
Reflections == [rTM : RVals, rTE : RVals, raiseAt : {0, MaxRaise, QuadPts + 1}]

\* a permittivity callback returns val, or raises at its raiseAt-th call
Permittivities == [val : {-1, 1}, raiseAt : {0, 1, QuadPts + 2}]

IdleQCall ==
    [fn |-> "idle", k0 |-> 0, d |-> 1,
     epsm_func |-> [val |-> 1, raiseAt |-> 0],
     rL |-> [rTM |-> 1, rTE |-> 1, raiseAt |-> 0],
     rR |-> [rTM |-> 1, rTE |-> 1, raiseAt |-> 0]]

IdleQRun ==
    [pc |-> "idle", i |-> 0, samples |-> << >>, res_TE |-> << >>, res_TM |-> << >>,
     nEps |-> 0, nL |-> 0, nR |-> 0, evals |-> 0, omega |-> << >>, t |-> 0,
     last |-> << << >>, << >> >>,
     ret |-> << >>, err |-> "none"]

ModeOf(fn) ==
    CASE fn = "k0_func_energy" -> "energy"
      [] fn = "k0_func_pressure" -> "pressure"
      [] OTHER -> "pressuregradient"

\* One evaluation of the lambda f_TE (idx = 1) or f_TM (idx = 2) at t:
\*   k_integrand(t / d, k0, d, epsm_func(k0 * c), rL, rR)[idx - 1] / d
\* in the order Python evaluates it: epsm_func, sqrt, rL, rR, res_TE, res_TM.
Sample(q, r, idx, t) ==
    LET mode == ModeOf(q.fn)
        ksq == KappaSq(t, q.k0, q.d, q.epsm_func.val)
        val == k_integrand(mode, TDiv(Num(t), Num(q.d)), Num(q.k0), Num(q.d),
                           Num(q.epsm_func.val), q.rL, q.rR)
        called == [r EXCEPT !.evals = @ + 1, !.nEps = @ + 1,
                            !.omega = TMul(Num(q.k0), TC)]
        raised(x, e) == [x EXCEPT !.pc = "raised", !.err = e]
    IN  CASE q.epsm_func.raiseAt = called.nEps -> raised(called, "epsm_func")
          [] ksq < 0 -> raised(called, "ValueError")
          [] q.rL.raiseAt = r.nL + 1 -> raised([called EXCEPT !.nL = @ + 1], "rL")
          [] q.rR.raiseAt = r.nR + 1 ->
                raised([called EXCEPT !.nL = @ + 1, !.nR = @ + 1], "rR")
          [] KernelError(mode, ksq, q.rL.rTE, q.rR.rTE) # "none" ->
                raised([called EXCEPT !.nL = @ + 1, !.nR = @ + 1],
                       KernelError(mode, ksq, q.rL.rTE, q.rR.rTE))
          [] KernelError(mode, ksq, q.rL.rTM, q.rR.rTM) # "none" ->
                raised([called EXCEPT !.nL = @ + 1, !.nR = @ + 1],
                       KernelError(mode, ksq, q.rL.rTM, q.rR.rTM))
          [] OTHER ->
                [called EXCEPT !.nL = @ + 1, !.nR = @ + 1, !.i = @ + 1, !.t = t, !.last = val,
                               !.samples = Append(@, TDiv(val[idx], Num(q.d)))]

\* quad(f, 0, inf)[0]: the integral as an expression of the samples it took
QuadValue(samples) ==
    LET RECURSIVE cat(_)
        cat(k) == IF k = 0 THEN << >> ELSE cat(k - 1) \o samples[k]
    IN  << 12, Len(samples) >> \o cat(Len(samples))

\* k0_func_*: res_TE = quad(f_TE, 0, inf)[0] is done, f_TM is next
QuadTEDone(r) ==
    [r EXCEPT !.pc = "TM", !.i = 0, !.samples = << >>, !.res_TE = QuadValue(r.samples)]

\* k0_func_*: res_TM = quad(f_TM, 0, inf)[0]; return np.array([res_TE, res_TM])
QuadTMDone(r) ==
    LET res_TM == QuadValue(r.samples)
    IN  [r EXCEPT !.pc = "done", !.res_TM = res_TM, !.ret = << r.res_TE, res_TM >>]

\* quad itself raises: nothing in k0_func_* catches it
QuadRaise(r) == [r EXCEPT !.pc = "raised", !.err = "quad"]

\* ------------------------------------------------------------- the state
\* call, func, run: the arguments and the locals of a psd_sum or msd_sum call;
\* func2, run2: a second call with the same arguments but its own callback;
\* qcall, qrun: the arguments and the locals of a k0_func_* call.
VARIABLES call, func, run, func2, run2, qcall, qrun

vars == << call, func, run, func2, run2, qcall, qrun >>

IdleFunc == [shape |-> 2, te |-> "zero", tm |-> "zero", raiseAt |-> 0]

Init ==
    /\ call = IdleCall
    /\ func = IdleFunc
    /\ run = IdleRun
    /\ func2 = IdleFunc
    /\ run2 = IdleRun
    /\ qcall = IdleQCall
    /\ qrun = IdleQRun

CallPsd ==
    /\ call.fn = "idle" /\ qcall.fn = "idle"
    /\ \E T \in Temps, L \in Lengths, f \in Funcs, e \in EpsRels, cap \in Caps :
          /\ call' = [fn |-> "psd_sum", T |-> T, L |-> L, epsrel |-> e, cap |-> cap]
          /\ func' = f
          /\ run' = PsdStart(call')
    /\ UNCHANGED << func2, run2, qcall, qrun >>

CallMsd ==
    /\ call.fn = "idle" /\ qcall.fn = "idle"
    /\ \E T \in Temps, L \in Lengths, f \in Funcs, e \in EpsRels, cap \in Caps :
          /\ call' = [fn |-> "msd_sum", T |-> T, L |-> L, epsrel |-> e, cap |-> cap]
          /\ func' = f
          /\ run' = MsdStart(call')
    /\ UNCHANGED << func2, run2, qcall, qrun >>

PsdStep ==
    /\ call.fn = "psd_sum"
    /\ PsdCanIter(run)
    /\ run' = PsdIter(call, func, run)
    /\ UNCHANGED << call, func, func2, run2, qcall, qrun >>

PsdDone ==
    /\ call.fn = "psd_sum"
    /\ PsdCanReturn(run)
    /\ run' = PsdReturn(call, run)
    /\ UNCHANGED << call, func, func2, run2, qcall, qrun >>

MsdStep ==
    /\ call.fn = "msd_sum"
    /\ MsdCanIter(call, run)
    /\ Len(run.calls) < MaxCalls
    /\ run' = MsdIter(call, func, run)
    /\ UNCHANGED << call, func, func2, run2, qcall, qrun >>

MsdDone ==
    /\ call.fn = "msd_sum"
    /\ MsdCanReturn(call, run)
    /\ run' = MsdReturn(call, run)
    /\ UNCHANGED << call, func, func2, run2, qcall, qrun >>

CallK0 ==
    /\ call.fn = "idle" /\ qcall.fn = "idle"
    /\ \E fn \in {"k0_func_energy", "k0_func_pressure", "k0_func_pressuregradient"},
          k0 \in K0s, d \in Seps, e \in Permittivities,
          rL \in Reflections, rR \in Reflections :
          qcall' = [fn |-> fn, k0 |-> k0, d |-> d, epsm_func |-> e, rL |-> rL, rR |-> rR]
    /\ qrun' = [IdleQRun EXCEPT !.pc = "TE"]
    /\ UNCHANGED << call, func, run, func2, run2 >>

\* quad evaluates f_TE at its next sample point
QuadEvalTE ==
    /\ qrun.pc = "TE" /\ qrun.i < QuadPts
    /\ qrun' = Sample(qcall, qrun, 1, qrun.i + 1)
    /\ UNCHANGED << call, func, run, func2, run2, qcall >>

QuadReturnTE ==
    /\ qrun.pc = "TE" /\ qrun.i = QuadPts
    /\ qrun' = QuadTEDone(qrun)
    /\ UNCHANGED << call, func, run, func2, run2, qcall >>

\* quad evaluates f_TM at its next sample point
QuadEvalTM ==
    /\ qrun.pc = "TM" /\ qrun.i < QuadPts
    /\ qrun' = Sample(qcall, qrun, 2, qrun.i + 1)
    /\ UNCHANGED << call, func, run, func2, run2, qcall >>

QuadReturnTM ==
    /\ qrun.pc = "TM" /\ qrun.i = QuadPts
    /\ qrun' = QuadTMDone(qrun)
    /\ UNCHANGED << call, func, run, func2, run2, qcall >>

QuadFails ==
    /\ qrun.pc \in {"TE", "TM"}
    /\ qrun' = QuadRaise(qrun)
    /\ UNCHANGED << call, func, run, func2, run2, qcall >>

Next ==
    \/ CallPsd \/ CallMsd \/ PsdStep \/ PsdDone \/ MsdStep \/ MsdDone
    \/ CallK0 \/ QuadEvalTE \/ QuadReturnTE \/ QuadEvalTM \/ QuadReturnTM \/ QuadFails

Spec == Init /\ [][Next]_vars

\* ------------------------------------------------------------- two calls side by side
\* The same psd_sum or msd_sum call made twice, with two callbacks that share a
\* component; the first call runs to its end, then the second.
SumStart(c) == IF c.fn = "psd_sum" THEN PsdStart(c) ELSE MsdStart(c)

SumCanStep(c, r) ==
    IF c.fn = "psd_sum"
    THEN PsdCanIter(r) \/ PsdCanReturn(r)
    ELSE (MsdCanIter(c, r) /\ Len(r.calls) < MaxCalls) \/ MsdCanReturn(c, r)

SumStep(c, f, r) ==
    IF c.fn = "psd_sum"
    THEN IF PsdCanIter(r) THEN PsdIter(c, f, r) ELSE PsdReturn(c, r)
    ELSE IF MsdCanReturn(c, r) THEN MsdReturn(c, r) ELSE MsdIter(c, f, r)

PairFuncs == { f \in Funcs : f.raiseAt = 0 }

CallPair ==
    /\ call.fn = "idle"
    /\ \E fn \in {"psd_sum", "msd_sum"}, T \in Temps, L \in Lengths,
          e \in { x \in EpsRels : ~x.neg }, cap \in Caps,
          f \in PairFuncs, g \in PairFuncs :
          /\ f.te = g.te \/ f.tm = g.tm
          /\ fn = "msd_sum" => L = 1
          /\ call' = [fn |-> fn, T |-> T, L |-> L, epsrel |-> e, cap |-> cap]
          /\ func' = f
          /\ func2' = g
          /\ run' = SumStart(call')
          /\ run2' = SumStart(call')
    /\ UNCHANGED << qcall, qrun >>

FirstCallSteps ==
    /\ call.fn # "idle"
    /\ SumCanStep(call, run)
    /\ run' = SumStep(call, func, run)
    /\ UNCHANGED << call, func, func2, run2, qcall, qrun >>

SecondCallSteps ==
    /\ call.fn # "idle"
    /\ ~SumCanStep(call, run)
    /\ SumCanStep(call, run2)
    /\ run2' = SumStep(call, func2, run2)
    /\ UNCHANGED << call, func, run, func2, qcall, qrun >>

NextPair == CallPair \/ FirstCallSteps \/ SecondCallSteps

SpecPair == Init /\ [][NextPair]_vars


\* ------------------------------------------------------------- the claims
IsPsd == call.fn = "psd_sum"

IsMsd == call.fn = "msd_sum"

\* the arguments msd_sum passes to func: K_matsubara * 1, * 2, ..., in this order
MsdArgsInOrder(c, r) ==
    \A i \in 1..Len(r.calls) : RealEq(r.calls[i], RealMul(K_matsubara(c.T), i))

\* C1: with an explicit order N, psd_sum returns after exactly N evaluations of
\* func; with an explicit nmax N, msd_sum returns after exactly N evaluations, at
\* K*1 .. K*N, and never leaves its loop on the convergence ratio; this for
\* every epsrel.
C1_FixedCount ==
    (call.fn # "idle" /\ call.cap.given) =>
        /\ Len(run.calls) <= call.cap.val
        /\ run.pc # "break"
        /\ run.err # "ValueError"
        /\ run.pc = "done" => Len(run.calls) = call.cap.val
        /\ IsMsd => MsdArgsInOrder(call, run)

\* msd_sum with nmax = MaxOrder returned after MaxOrder evaluations of a scalar
\* geometric func under the loosest epsrel, whose ratio is below epsrel before
\* the last index
C1_Witness ==
    /\ IsMsd /\ call.cap.given /\ call.cap.val = MaxOrder
    /\ func.shape = 1 /\ func.te = "geo" /\ func.raiseAt = 0
    /\ call.epsrel = [neg |-> FALSE, exp |-> MaxEpsExp]
    /\ run.pc = "done" /\ Len(run.calls) = MaxOrder
    /\ BelowEps(KindVal("geo", 1), 4 * KindVal("geo", 1), call.epsrel)

\* the closed form 0.5*k_B*T * 2*r/(1-r) at r = 1/2, in the model's units
GeoClosedForm(T) == T * 2 * (2 ^ GeoBits)

\* |x - ref| <= epsrel * |ref|
WithinEps(x, ref, epsrel) ==
    IF epsrel.exp >= 0
    THEN Abs(x - ref) <= (10 ^ epsrel.exp) * Abs(ref)
    ELSE Abs(x - ref) * (10 ^ (-epsrel.exp)) <= Abs(ref)

GeoVector == [shape |-> 2, te |-> "geo", tm |-> "geo", raiseAt |-> 0]

\* C2: msd_sum without nmax, with the geometric 2-vector func [r^n, r^n] and
\* epsrel > 0, ends by returning (it raises nothing), and each component of what
\* it returns is within relative error epsrel of the closed form.
C2_GeometricTerminates ==
    (IsMsd /\ ~call.cap.given /\ ~call.epsrel.neg /\ func = GeoVector) =>
        /\ run.pc # "raised"
        /\ run.pc = "done" =>
              \A i \in 1..2 : WithinEps(run.ret[i], GeoClosedForm(call.T), call.epsrel)

\* the two callbacks agree on component i at every frequency either call sampled
AgreeOn(i) ==
    \A j \in 1..Max(Len(run.calls), Len(run2.calls)) :
        Bcast(FuncVal(func, j), i) = Bcast(FuncVal(func2, j), i)

\* C3: two psd_sum or msd_sum calls that differ only in func, with callbacks that
\* agree on TE at every sampled frequency, return the same TE component; and
\* likewise for TM.
C3_ComponentIndependence ==
    (run.pc = "done" /\ run2.pc = "done") =>
        \A i \in 1..2 : AgreeOn(i) => run.ret[i] = run2.ret[i]

\* both calls returned, the callbacks agree on TE and not on TM, and the TM
\* results differ
C3_Witness ==
    /\ run.pc = "done" /\ run2.pc = "done"
    /\ Len(run.calls) >= 2
    /\ AgreeOn(1) /\ ~AgreeOn(2)
    /\ run.ret[1] = run2.ret[1] /\ run.ret[1] # 0
    /\ run.ret[2] # run2.ret[2]

\* C4: for T > 0, L > 0, epsrel > 0 and no explicit order, the order psd_sum
\* computes, asks the node generator for and evaluates func for is at least 5.
C4_OrderFloor ==
    (IsPsd /\ ~call.cap.given /\ ~call.epsrel.neg) =>
        /\ run.order >= 5
        /\ run.psdCalls = << run.order >>
        /\ Len(run.xi) = run.order
        /\ run.pc = "done" => Len(run.calls) = run.order

\* psd_sum returned under the loosest epsrel, where the heuristic's quotient is
\* below 5, after 5 evaluations
C4_Witness ==
    /\ IsPsd /\ ~call.cap.given
    /\ call.epsrel = [neg |-> FALSE, exp |-> MaxEpsExp]
    /\ CeilOverSqrt(Numer2(call.epsrel), Teff(call.T, call.L)) < 5
    /\ run.pc = "done" /\ Len(run.calls) = 5

\* C5: for fixed T and L, a smaller epsrel (both positive) never gives a smaller
\* order than the one psd_sum computed.
C5_OrderMonotone ==
    (IsPsd /\ ~call.cap.given /\ ~call.epsrel.neg) =>
        \A e \in EpsRels :
            (~e.neg /\ e.exp <= call.epsrel.exp) =>
                OrderHeuristic(call.T, call.L, e) >= run.order

\* psd_sum computed an order above the floor, and a smaller epsrel gives a
\* strictly larger one
C5_Witness ==
    /\ IsPsd /\ ~call.cap.given /\ ~call.epsrel.neg
    /\ run.order > 5
    /\ \E e \in EpsRels :
          ~e.neg /\ e.exp < call.epsrel.exp
          /\ OrderHeuristic(call.T, call.L, e) > run.order

\* the integrand of the running k0_func_* call at its last sample point, with
\* the reflection callbacks' returns replaced by refL and refR
IntegrandAt(refL, refR) ==
    k_integrand(ModeOf(qcall.fn), TDiv(Num(qrun.t), Num(qcall.d)), Num(qcall.k0),
                Num(qcall.d), Num(qcall.epsm_func.val), refL, refR)

\* C6: in each of the three integrands, with every other input fixed, varying
\* the rTE values that rL and rR return leaves the TM component as it is, and
\* varying the rTM values leaves the TE component as it is.
C6_VectorIndependence ==
    qrun.t > 0 =>
        \A a \in RVals, b \in RVals :
            /\ IntegrandAt([qcall.rL EXCEPT !.rTE = a], [qcall.rR EXCEPT !.rTE = b])[2]
                  = qrun.last[2]
            /\ IntegrandAt([qcall.rL EXCEPT !.rTM = a], [qcall.rR EXCEPT !.rTM = b])[1]
                  = qrun.last[1]

\* k0_func_pressure has evaluated its integrand, with plates whose TE and TM
\* coefficients differ
C6_Witness ==
    /\ qcall.fn = "k0_func_pressure"
    /\ qrun.pc = "TM" /\ qrun.i >= 1
    /\ qcall.rL.rTE # qcall.rL.rTM
    /\ qcall.rR.rTE # qcall.rR.rTM
    /\ qrun.last[1] # qrun.last[2]

\* the loop of msd_sum never meets its stopping ratio with this func and epsrel:
\* the terms are 1, -1 or 0 and the running total 0, 2 or 4, so the ratio is
\* 1/4, 1/2, inf or nan at every index
NeverConverges(f, epsrel) ==
    /\ f.te \in {"alt", "zero"} /\ f.tm \in {"alt", "zero"}
    /\ f.raiseAt = 0
    /\ ~epsrel.neg /\ epsrel.exp < 0

\* C7: msd_sum without nmax, on a series whose stopping ratio never holds,
\* neither returns nor raises: it is in its loop, about to evaluate func at the
\* next index.
C7_NoHiddenCap ==
    (IsMsd /\ ~call.cap.given /\ NeverConverges(func, call.epsrel)) =>
        /\ run.pc = "loop"
        /\ run.n = Len(run.calls) + 1
        /\ MsdArgsInOrder(call, run)

\* C8: an error raised by a callback or by the quadrature ends the call as that
\* error: no result is returned, the evaluation that failed is the last one made
\* and it was made once.
C8_ErrorPropagation ==
    /\ (call.fn # "idle" /\ func.raiseAt # 0 /\ Len(run.calls) >= func.raiseAt) =>
          /\ run.pc = "raised" /\ run.err = "func"
          /\ Len(run.calls) = func.raiseAt
    /\ run.pc = "raised" <=> run.err # "none"
    /\ run.pc = "raised" => run.ret = IdleRun.ret
    /\ (qcall.fn # "idle" /\ qcall.epsm_func.raiseAt # 0
            /\ qrun.nEps >= qcall.epsm_func.raiseAt) =>
          /\ qrun.pc = "raised" /\ qrun.err \in {"epsm_func", "quad"}
          /\ qrun.nEps = qcall.epsm_func.raiseAt
    /\ (qcall.fn # "idle" /\ qcall.rL.raiseAt # 0 /\ qrun.nL >= qcall.rL.raiseAt) =>
          /\ qrun.pc = "raised" /\ qrun.err \in {"rL", "quad"}
          /\ qrun.nL = qcall.rL.raiseAt
    /\ (qcall.fn # "idle" /\ qcall.rR.raiseAt # 0 /\ qrun.nR >= qcall.rR.raiseAt) =>
          /\ qrun.pc = "raised" /\ qrun.err \in {"rR", "quad"}
          /\ qrun.nR = qcall.rR.raiseAt
    /\ qrun.pc = "raised" <=> qrun.err # "none"
    /\ qrun.pc = "raised" => (qrun.ret = IdleQRun.ret /\ qrun.evals = qrun.nEps)

\* msd_sum ended with the error func raised at its MaxRaise-th evaluation
C8_Witness ==
    /\ IsMsd /\ func.raiseAt = MaxRaise
    /\ run.pc = "raised" /\ run.err = "func"
    /\ Len(run.calls) = MaxRaise

\* the partial sum  sum over j = 1..m of func's j-th term, by component
RECURSIVE TermSum(_, _, _)
TermSum(f, m, i) == IF m = 0 THEN 0 ELSE TermSum(f, m - 1, i) + Bcast(FuncVal(f, m), i)

\* the stopping ratio holds at index m, for every element of the term
RatioHoldsAt(f, m, epsrel) ==
    \A i \in 1..f.shape :
        BelowEps(FuncVal(f, m)[i], 2 * TermSum(f, m, 1) + 2 * TermSum(f, m, 2), epsrel)

\* C9: msd_sum without nmax evaluates func at K*1, K*2, ... in order, adds
\* 2*term to res before the test, leaves the loop at the first index whose ratio
\* |term / sum(res)| is below epsrel, and returns 0.5*k_B*T*res with that last
\* term in it; it ends in no other way.
C9_StoppingRule ==
    (IsMsd /\ ~call.cap.given /\ func.raiseAt = 0) =>
        /\ MsdArgsInOrder(call, run)
        /\ \A i \in 1..2 : run.res[i] = 2 * TermSum(func, Len(run.calls), i)
        /\ \A m \in 1..(Len(run.calls) - 1) : ~RatioHoldsAt(func, m, call.epsrel)
        /\ run.pc \in {"loop", "break", "done"}
        /\ run.pc \in {"break", "done"} <=>
              (Len(run.calls) >= 1 /\ RatioHoldsAt(func, Len(run.calls), call.epsrel))
        /\ run.pc = "done" => run.ret = Scaled(call.T, run.res)

\* the sum over i = 1..m of 2 * eta_i * func's i-th term, by component
RECURSIVE PsdWeightedSum(_, _, _, _)
PsdWeightedSum(f, eta, m, i) ==
    IF m = 0 THEN 0
    ELSE PsdWeightedSum(f, eta, m - 1, i) + 2 * eta[m] * Bcast(FuncVal(f, m), i)

\* C10: psd_sum asks the node generator once, for order nodes, evaluates func
\* once per node at K*xi_i/(2*pi) = T*xi_i (in k_B/(hbar*c)), and returns
\* 0.5*k_B*T times the sum of 2*eta_i*func(...): a function of T, order and func
\* alone.
C10_PsdResult ==
    (IsPsd /\ run.pc = "done") =>
        /\ run.psdCalls = << run.order >>
        /\ call.cap.given => run.order = call.cap.val
        /\ Len(run.calls) = run.order
        /\ \A i \in 1..run.order :
              RealEq(run.calls[i], Real(call.T * PsdNodes(run.order).xi[i], 1, 0))
        /\ \A i \in 1..2 :
              run.ret[i] = call.T * PsdWeightedSum(func, PsdNodes(run.order).eta, run.order, i)

\* psd_sum returned a sum of more than 5 weighted terms whose components differ
C10_Witness ==
    /\ IsPsd /\ ~call.cap.given /\ run.pc = "done"
    /\ run.order > 5 /\ call.T > 1
    /\ func.shape = 2 /\ func.te = "geo" /\ func.tm = "alt"
    /\ run.ret[1] # run.ret[2]

====
